---- MODULE Spec2Model ----
(***************************************************************************)
(* Model of pkg/cmd/all-keywords/main.go: the generator that reads sql.y   *)
(* on standard input, collects the keywords of the XXX_keyword: sections,  *)
(* sorts them and renders sql/lex/keywords.go through a text template.     *)
(*                                                                         *)
(* A string is a sequence of one-character strings, so that the two        *)
(* regular expressions, strings.ToLower and the byte-wise string order of  *)
(* Go are computed character by character.                                 *)
(***************************************************************************)
EXTENDS Integers, Sequences, FiniteSets, TLC

\* Number of lines the scanner reads before end of input.
MaxLines == 4
\* Number of keyword sections of an input whose sections are rearranged.
MaxSections == 2

VARIABLES
    input,      \* the lines scanner.Scan() has returned so far (os.Stdin consumed)
    keyword,    \* main.keyword: inside a keyword section
    category,   \* main.category: code of the current section
    seen,       \* main.seen: the Match strings recorded so far
    data,       \* main.data: the entries, in recording order, then sorted
    pc,         \* position in main: "scan", "sort", "render", "done", "fatal"
    err,        \* the log.Fatal message prefix, "" while none was raised
    out,        \* what has been written to os.Stdout
    first,      \* a whole input made of keyword sections
    second,     \* the same sections rearranged
    outFirst,   \* result of a run of the generator on first
    outSecond   \* result of a run of the generator on second

vars == <<input, keyword, category, seen, data, pc, err, out,
          first, second, outFirst, outSecond>>
runVars == <<input, keyword, category, seen, data, pc, err, out>>
orderVars == <<first, second, outFirst, outSecond>>

----------------------------------------------------------------------------
\* Characters and strings

UpperLetters ==
    <<"A", "B", "C", "D", "E", "F", "G", "H", "I", "J", "K", "L", "M",
      "N", "O", "P", "Q", "R", "S", "T", "U", "V", "W", "X", "Y", "Z">>
LowerLetters ==
    <<"a", "b", "c", "d", "e", "f", "g", "h", "i", "j", "k", "l", "m",
      "n", "o", "p", "q", "r", "s", "t", "u", "v", "w", "x", "y", "z">>

Range(s) == {s[i] : i \in DOMAIN s}
IndexOf(s, c) == CHOOSE i \in DOMAIN s : s[i] = c
Max(S) == CHOOSE x \in S : \A y \in S : y <= x
Min(S) == CHOOSE x \in S : \A y \in S : x <= y

\* The character class [A-Z] of pipeRE.
IsUpper(c) == c \in Range(UpperLetters)

\* The byte value of a character (ASCII), which Go's string < compares.
Byte(c) ==
    IF c \in Range(UpperLetters) THEN 64 + IndexOf(UpperLetters, c)
    ELSE IF c \in Range(LowerLetters) THEN 96 + IndexOf(LowerLetters, c)
    ELSE CASE c = " " -> 32
           [] c = ":" -> 58
           [] c = "_" -> 95
           [] c = "|" -> 124

\* Go's s < t on strings: byte-wise lexicographic order.
StringLess(s, t) ==
    \/ /\ Len(s) < Len(t)
       /\ SubSeq(t, 1, Len(s)) = s
    \/ \E i \in 1..Min({Len(s), Len(t)}) :
          /\ SubSeq(s, 1, i - 1) = SubSeq(t, 1, i - 1)
          /\ Byte(s[i]) < Byte(t[i])

\* strings.ToLower: every letter A-Z becomes a-z, the rest is kept.
ToLower(s) ==
    [i \in 1..Len(s) |->
        IF IsUpper(s[i]) THEN LowerLetters[IndexOf(UpperLetters, s[i])]
        ELSE s[i]]

----------------------------------------------------------------------------
\* The two regular expressions

KeywordColon == <<"_", "k", "e", "y", "w", "o", "r", "d", ":">>

\* The positions at which an occurrence of "_keyword:" ends in line.
KeywordEnds(line) ==
    {j \in Len(KeywordColon)..Len(line) :
        SubSeq(line, j - Len(KeywordColon) + 1, j) = KeywordColon}

\* A bug keywordRE could have: a lazy .*?, which stops at the first "_keyword:".
keywordRELazy(line) ==
    IF KeywordEnds(line) = {} THEN <<>>
    ELSE SubSeq(line, 1, Min(KeywordEnds(line)))

\* keywordRE.FindString(line) for `^.*_keyword:`: the greedy .* takes the
\* prefix of the line through its last "_keyword:"; "" when there is none.
keywordRE(line) ==
    IF KeywordEnds(line) = {} THEN <<>>
    ELSE SubSeq(line, 1, Max(KeywordEnds(line)))

UpperAt(line) == {i \in 1..Len(line) : IsUpper(line[i])}

\* A bug pipeRE could have: `[A-Z]+`, which stops at the first other character.
pipeREWord(line) ==
    IF UpperAt(line) = {} THEN <<>>
    ELSE LET b == Min(UpperAt(line))
             e == Max({j \in b..Len(line) : \A k \in b..j : IsUpper(line[k])})
         IN  SubSeq(line, b, e)

\* pipeRE.FindString(line) for `[A-Z].*`: the leftmost match starts at the
\* first upper-case letter and .* runs to the end of the line.
pipeRE(line) ==
    IF UpperAt(line) = {} THEN <<>>
    ELSE SubSeq(line, Min(UpperAt(line)), Len(line))

----------------------------------------------------------------------------
\* The category table

\* "col_name_keyword:"
ColNameKeyword ==
    <<"c", "o", "l", "_", "n", "a", "m", "e", "_", "k", "e", "y", "w", "o",
      "r", "d", ":">>
\* "unreserved_keyword:"
UnreservedKeyword ==
    <<"u", "n", "r", "e", "s", "e", "r", "v", "e", "d", "_", "k", "e", "y",
      "w", "o", "r", "d", ":">>
\* "type_func_name_keyword:"
TypeFuncNameKeyword ==
    <<"t", "y", "p", "e", "_", "f", "u", "n", "c", "_", "n", "a", "m", "e",
      "_", "k", "e", "y", "w", "o", "r", "d", ":">>
\* "cockroachdb_extra_type_func_name_keyword:"
ExtraTypeFuncNameKeyword ==
    <<"c", "o", "c", "k", "r", "o", "a", "c", "h", "d", "b", "_", "e", "x",
      "t", "r", "a", "_", "t", "y", "p", "e", "_", "f", "u", "n", "c", "_",
      "n", "a", "m", "e", "_", "k", "e", "y", "w", "o", "r", "d", ":">>
\* "reserved_keyword:"
ReservedKeyword ==
    <<"r", "e", "s", "e", "r", "v", "e", "d", "_", "k", "e", "y", "w", "o",
      "r", "d", ":">>
\* "cockroachdb_extra_reserved_keyword:"
ExtraReservedKeyword ==
    <<"c", "o", "c", "k", "r", "o", "a", "c", "h", "d", "b", "_", "e", "x",
      "t", "r", "a", "_", "r", "e", "s", "e", "r", "v", "e", "d", "_", "k",
      "e", "y", "w", "o", "r", "d", ":">>

\* Category codes are for pg_get_keywords.
categories ==
    (ColNameKeyword :> "C") @@ (UnreservedKeyword :> "U") @@
    (TypeFuncNameKeyword :> "T") @@ (ExtraTypeFuncNameKeyword :> "T") @@
    (ReservedKeyword :> "R") @@ (ExtraReservedKeyword :> "R")

\* categories[match]: a Go map yields "" for a key it does not hold.
categoriesAt(match) ==
    IF match \in DOMAIN categories THEN categories[match] ELSE ""

----------------------------------------------------------------------------
\* The lines standard input can hold

\* "foo_keyword:"
FooHeader ==
    <<"f", "o", "o", "_", "k", "e", "y", "w", "o", "r", "d", ":">>
\* "col_name_keyword: AB"
ColNameHeaderAB ==
    <<"c", "o", "l", "_", "n", "a", "m", "e", "_", "k", "e", "y", "w", "o",
      "r", "d", ":", " ", "A", "B">>
\* "reserved_keyword:_keyword:"
DoubleHeader ==
    <<"r", "e", "s", "e", "r", "v", "e", "d", "_", "k", "e", "y", "w", "o",
      "r", "d", ":", "_", "k", "e", "y", "w", "o", "r", "d", ":">>
\* " "
SpaceLine ==
    <<" ">>
\* "| AB"
PipeAB ==
    <<"|", " ", "A", "B">>
\* "Ab"
LineAb ==
    <<"A", "b">>
\* "B c"
LineBc ==
    <<"B", " ", "c">>
\* ""
EmptyLine == <<>>

HeaderLines == {ReservedKeyword, UnreservedKeyword, ColNameHeaderAB}
FatalLines == {FooHeader, DoubleHeader}
KeywordLines == {PipeAB, LineAb, LineBc}
Lines == HeaderLines \cup FatalLines \cup KeywordLines \cup {EmptyLine, SpaceLine}

----------------------------------------------------------------------------
\* One iteration of the scanning loop, on the local variables of main

Start ==
    [keyword |-> FALSE, category |-> "", seen |-> {}, data |-> <<>>,
     pc |-> "scan", err |-> ""]

\* A bug the header branch could have: record the category, leave the flag.
HeaderKeepsFlag(st, match) ==
    IF categoriesAt(match) = ""
    THEN [st EXCEPT !.category = "", !.pc = "fatal",
                    !.err = "unknown keyword type:"]
    ELSE [st EXCEPT !.category = categoriesAt(match)]

\* The branch taken when keywordRE matched: the flag and the category are
\* assigned, then an unknown header is fatal.
Header(st, match) ==
    IF categoriesAt(match) = ""
    THEN [st EXCEPT !.keyword = TRUE, !.category = "", !.pc = "fatal",
                    !.err = "unknown keyword type:"]
    ELSE [st EXCEPT !.keyword = TRUE, !.category = categoriesAt(match)]

\* A bug the test for the end of a section could have: trim the line first.
IsEmptyTrimmed(line) == \A i \in 1..Len(line) : line[i] = " "

\* line == ""
IsEmpty(line) == line = <<>>

\* A bug the empty-line branch could have: leave the flag as it is.
BlankKeepsFlag(st) == st

\* The branch taken on an empty line.
Blank(st) == [st EXCEPT !.keyword = FALSE]

\* entry{Lower: strings.ToLower(match), Match: match, Category: category}
entry(match, cat) ==
    [Lower |-> ToLower(match), Match |-> match, Category |-> cat]

\* A bug the guard could have: the seen set is not consulted.
RecordsAlways(st, match) == st.keyword /\ match # <<>>

\* keyword && match != "" && !seen[match]
Records(st, match) == st.keyword /\ match # <<>> /\ match \notin st.seen

\* The last branch: record the match of pipeRE when the guard holds.
Other(st, line) ==
    LET match == pipeRE(line) IN
    IF Records(st, match)
    THEN [st EXCEPT !.seen = @ \cup {match},
                    !.data = Append(@, entry(match, st.category))]
    ELSE st

\* The body of the for scanner.Scan() loop.
Step(st, line) ==
    IF keywordRE(line) # <<>> THEN Header(st, keywordRE(line))
    ELSE IF IsEmpty(line) THEN Blank(st)
    ELSE Other(st, line)

----------------------------------------------------------------------------
\* Sorting and rendering

\* A bug the comparison could have: the order reversed.
lessReversed(a, b) == StringLess(b.Match, a.Match)

\* The less function handed to sort.Slice: data[i].Match < data[j].Match
less(a, b) == StringLess(a.Match, b.Match)

\* A bug: the sort left out.
SliceUnsorted(d) == {d}

\* sort.Slice(data, less): the slice is rearranged in place so that no element
\* is less than one before it; sort.Slice is not stable, so every such
\* arrangement is a possible result.
Slice(d) ==
    {s \in {[i \in 1..Len(d) |-> d[p[i]]] : p \in Permutations(1..Len(d))} :
        \A i, j \in 1..Len(s) : i < j => ~less(s[j], s[i])}

Ident == <<"I", "D", "E", "N", "T">>

TextLine(kind) ==
    [kind |-> kind, Lower |-> <<>>, Match |-> <<>>, Category |-> ""]

\* The output of the template on d, one element per piece of text: the fixed
\* text up to the map literal, one line per entry of the first range, the fixed
\* text up to the switch, one case per entry of the second range, the default.
tmpl(d) ==
    <<TextLine("package")>>
    \o [i \in 1..Len(d) |->
          [kind |-> "key", Lower |-> d[i].Lower, Match |-> d[i].Match,
           Category |-> d[i].Category]]
    \o <<TextLine("func")>>
    \o [i \in 1..Len(d) |->
          [kind |-> "case", Lower |-> d[i].Lower, Match |-> d[i].Match,
           Category |-> ""]]
    \o <<[kind |-> "default", Lower |-> <<>>, Match |-> Ident,
          Category |-> ""]>>

\* The generated Keywords literal: the lines "Lower": { Match, "Category" }.
Keywords(o) == SelectSeq(o, LAMBDA l : l.kind = "key")

\* The case clauses of the generated switch, in order.
Cases(o) == SelectSeq(o, LAMBDA l : l.kind = "case")

\* The generated GetKeywordID(k): a switch runs the first clause whose case
\* equals k, and the default clause when there is none.
GetKeywordID(o, k) ==
    LET hits == {i \in 1..Len(Cases(o)) : Cases(o)[i].Lower = k} IN
    IF hits = {} THEN Ident ELSE Cases(o)[Min(hits)].Match

----------------------------------------------------------------------------
\* The run of main

Init ==
    /\ input = <<>>
    /\ keyword = FALSE
    /\ category = ""
    /\ seen = {}
    /\ data = <<>>
    /\ pc = "scan"
    /\ err = ""
    /\ out = <<>>
    /\ first = <<>>
    /\ second = <<>>
    /\ outFirst = <<>>
    /\ outSecond = <<>>

Locals ==
    [keyword |-> keyword, category |-> category, seen |-> seen,
     data |-> data, pc |-> pc, err |-> err]

\* scanner.Scan() returns true with the next line and the loop body runs.
ScanLine ==
    /\ pc = "scan"
    /\ Len(input) < MaxLines
    /\ \E line \in Lines :
          LET st == Step(Locals, line) IN
          /\ input' = Append(input, line)
          /\ keyword' = st.keyword
          /\ category' = st.category
          /\ seen' = st.seen
          /\ data' = st.data
          /\ pc' = st.pc
          /\ err' = st.err
    /\ UNCHANGED <<out, orderVars>>

\* scanner.Scan() returns false at the end of the input, scanner.Err() is nil.
ScanEnd ==
    /\ pc = "scan"
    /\ pc' = "sort"
    /\ UNCHANGED <<input, keyword, category, seen, data, err, out, orderVars>>

\* scanner.Scan() returns false on a read error, scanner.Err() is not nil.
ScanError ==
    /\ pc = "scan"
    /\ pc' = "fatal"
    /\ err' = "reading standard input:"
    /\ UNCHANGED <<input, keyword, category, seen, data, out, orderVars>>

\* sort.Slice(data, ...)
Sort ==
    /\ pc = "sort"
    /\ data' \in Slice(data)
    /\ pc' = "render"
    /\ UNCHANGED <<input, keyword, category, seen, err, out, orderVars>>

\* The template is executed to os.Stdout without error.
Render ==
    /\ pc = "render"
    /\ out' = tmpl(data)
    /\ pc' = "done"
    /\ UNCHANGED <<input, keyword, category, seen, data, err, orderVars>>

\* Execute returns an error (a write to os.Stdout failed): what was written
\* before it stays written, and the run is fatal.
RenderError ==
    /\ pc = "render"
    /\ \E n \in 0..(Len(tmpl(data)) - 1) : out' = SubSeq(tmpl(data), 1, n)
    /\ pc' = "fatal"
    /\ err' = "execute"
    /\ UNCHANGED <<input, keyword, category, seen, data, orderVars>>

Next ==
    \/ ScanLine
    \/ ScanEnd
    \/ ScanError
    \/ Sort
    \/ Render
    \/ RenderError

Spec == Init /\ [][Next]_vars

----------------------------------------------------------------------------
\* Two runs on the same keyword sections in two arrangements

\* The whole loop on the lines of an input, from the state st.
RECURSIVE ScanAll(_, _)
ScanAll(st, lines) ==
    IF lines = <<>> \/ st.pc = "fatal" THEN st
    ELSE ScanAll(Step(st, Head(lines)), Tail(lines))

\* The outputs main can write for the input lines when no read and no write
\* fails: nothing after a fatal header, else the template on the sorted data.
Generate(lines) ==
    LET st == ScanAll(Start, lines) IN
    IF st.pc = "fatal" THEN {<<>>}
    ELSE {tmpl(s) : s \in Slice(st.data)}

SectionHeaders == {ReservedKeyword, UnreservedKeyword}
SectionBodies ==
    {<<PipeAB>>, <<LineBc>>, <<PipeAB, LineBc>>, <<LineBc, PipeAB>>}
Sections == [header : SectionHeaders, body : SectionBodies]

\* Header line, keyword lines, terminating blank line.
SectionLines(sec) == <<sec.header>> \o sec.body \o <<EmptyLine>>

RECURSIVE Flatten(_)
Flatten(secs) ==
    IF secs = <<>> THEN <<>>
    ELSE SectionLines(Head(secs)) \o Flatten(Tail(secs))

SeqPerms(s) ==
    {[i \in 1..Len(s) |-> s[p[i]]] : p \in Permutations(1..Len(s))}

\* The sections of secs in another order, the keyword lines inside each
\* section in another order.
Rearranged(secs) ==
    UNION {
        {[i \in 1..Len(secs) |-> [header |-> secs[p[i]].header, body |-> b[i]]] :
            b \in {c \in [1..Len(secs) -> SectionBodies] :
                     \A i \in 1..Len(secs) : c[i] \in SeqPerms(secs[p[i]].body)}} :
        p \in Permutations(1..Len(secs))}

InitOrder ==
    /\ input = <<>>
    /\ keyword = FALSE
    /\ category = ""
    /\ seen = {}
    /\ data = <<>>
    /\ pc = "scan"
    /\ err = ""
    /\ out = <<>>
    /\ \E n \in 1..MaxSections :
         \E secs \in [1..n -> Sections] :
           \E other \in Rearranged(secs) :
              /\ first = Flatten(secs)
              /\ second = Flatten(other)
    /\ outFirst = <<>>
    /\ outSecond = <<>>

\* A complete run of main on first.
RunFirst ==
    /\ outFirst = <<>>
    /\ outFirst' \in Generate(first)
    /\ UNCHANGED <<runVars, first, second, outSecond>>

\* A complete run of main on second.
RunSecond ==
    /\ outSecond = <<>>
    /\ outSecond' \in Generate(second)
    /\ UNCHANGED <<runVars, first, second, outFirst>>

NextOrder ==
    \/ RunFirst
    \/ RunSecond

SpecOrder == InitOrder /\ [][NextOrder]_vars

----------------------------------------------------------------------------
\* Vocabulary of the properties, stated on the text of the input

\* The line the step just read.
ReadLine == input'[Len(input')]

\* A step of the scanning loop that read one more line.
Reads == pc = "scan" /\ Len(input') = Len(input) + 1

\* The line contains "_keyword:", so the header pattern matches it.
IsHeaderLine(line) ==
    \E i \in 1..(Len(line) - Len(KeywordColon) + 1) :
        SubSeq(line, i, i + Len(KeywordColon) - 1) = KeywordColon

\* The prefixes of the line that end in "_keyword:".
HeaderPrefixes(line) ==
    {p \in {SubSeq(line, 1, j) : j \in 1..Len(line)} :
        /\ Len(p) >= Len(KeywordColon)
        /\ SubSeq(p, Len(p) - Len(KeywordColon) + 1, Len(p)) = KeywordColon}

\* The matched header text: the line up to and including its last "_keyword:".
MatchedHeader(line) ==
    CHOOSE p \in HeaderPrefixes(line) :
        \A q \in HeaderPrefixes(line) : Len(q) <= Len(p)

\* The part of the line from its first letter A-Z through its end, "" if none.
FromFirstUpper(line) ==
    LET tails == {SubSeq(line, i, Len(line)) : i \in 1..Len(line)}
        upperLed == {s \in tails : s[1] \in Range(UpperLetters)}
    IN  IF upperLed = {} THEN <<>>
        ELSE CHOOSE s \in upperLed : \A u \in upperLed : Len(u) <= Len(s)

\* Line i of lines lies in an open section: a header precedes it with no
\* empty line in between.
InSection(lines, i) ==
    \E h \in 1..(i - 1) :
        /\ IsHeaderLine(lines[h])
        /\ \A j \in (h + 1)..(i - 1) : lines[j] # <<>>

\* The code of the most recent header line before line i.
SectionCode(lines, i) ==
    LET h == Max({k \in 1..(i - 1) : IsHeaderLine(lines[k])})
    IN  categories[MatchedHeader(lines[h])]

\* Line i is a keyword line of an open section and yields the Match m.
Yields(lines, i, m) ==
    /\ lines[i] # <<>>
    /\ ~IsHeaderLine(lines[i])
    /\ InSection(lines, i)
    /\ FromFirstUpper(lines[i]) = m

\* The code of the section in which the Match m first appeared.
FirstCode(lines, m) ==
    SectionCode(lines, Min({i \in 1..Len(lines) : Yields(lines, i, m)}))

Matches(d) == {d[i].Match : i \in 1..Len(d)}

StrictlyAscending(d) ==
    \A i \in 1..(Len(d) - 1) : StringLess(d[i].Match, d[i + 1].Match)

IsPermutation(d, e) ==
    /\ Len(d) = Len(e)
    /\ \E p \in Permutations(1..Len(d)) : \A i \in 1..Len(d) : e[i] = d[p[i]]

EntryAB(cat) == [Lower |-> <<"a", "b">>, Match |-> <<"A", "B">>, Category |-> cat]

----------------------------------------------------------------------------
\* C1: every Match occurs at most once in the entry list, the entry kept for
\* it carries the code of the section in which the Match first appeared, and a
\* later line yielding a Match already recorded changes neither the entry list
\* nor the seen set and is not fatal.
C1_DuplicateSuppression ==
    /\ [](\A i, j \in 1..Len(data) : data[i].Match = data[j].Match => i = j)
    /\ [](\A i \in 1..Len(data) :
            data[i].Category = FirstCode(input, data[i].Match))
    /\ [][(/\ Reads
           /\ ~IsHeaderLine(ReadLine)
           /\ FromFirstUpper(ReadLine) \in Matches(data))
          => (data' = data /\ seen' = seen /\ pc' = "scan")]_vars

\* AB listed in a reserved and then in an unreserved section: one entry, R.
C1_Witness ==
    /\ pc = "scan"
    /\ input = <<ReservedKeyword, PipeAB, UnreservedKeyword, PipeAB>>
    /\ data = <<EntryAB("R")>>
    /\ seen = {<<"A", "B">>}

----------------------------------------------------------------------------
\* C2: in every output of a run that scanned without a fatal error, no two
\* lines of the generated mapping have the same lower-case key.
C2_LowerUnique ==
    pc = "done" =>
        \A i, j \in 1..Len(Keywords(out)) :
            Keywords(out)[i].Lower = Keywords(out)[j].Lower => i = j

----------------------------------------------------------------------------
\* C3: the sort step hands the renderer a permutation of the entries the
\* scanner collected, strictly ascending by Match in byte-wise string order;
\* the keys of the mapping and the cases of the switch are written in that
\* ascending order.
C3_Ordering ==
    /\ [][(pc = "sort" /\ pc' = "render") => IsPermutation(data, data')]_vars
    /\ [](pc \in {"render", "done"} => StrictlyAscending(data))
    /\ [](/\ StrictlyAscending(Keywords(out))
          /\ StrictlyAscending(Cases(out)))
    /\ [](pc = "done" =>
            /\ Len(Keywords(out)) = Len(data)
            /\ Len(Cases(out)) = Len(data)
            /\ \A i \in 1..Len(data) :
                  /\ Keywords(out)[i].Match = data[i].Match
                  /\ Cases(out)[i].Match = data[i].Match)

\* "B c" was read before "| AB" and the output lists AB before B c.
C3_Witness ==
    /\ pc = "done"
    /\ input = <<ReservedKeyword, LineBc, PipeAB>>
    /\ Len(Keywords(out)) = 2
    /\ Keywords(out)[1].Match = <<"A", "B">>
    /\ Cases(out)[2].Match = LineBc

----------------------------------------------------------------------------
\* C4: a line that matches the header pattern with a matched text outside the
\* six keys of the table makes the run fatal at that line, whatever the flag
\* and the category were; nothing follows a fatal error, and nothing has been
\* written by then: output exists only after the input was scanned to its end.
C4_UnknownHeader ==
    /\ [][(/\ Reads
           /\ IsHeaderLine(ReadLine)
           /\ MatchedHeader(ReadLine) \notin DOMAIN categories)
          => (/\ pc' = "fatal"
              /\ err' = "unknown keyword type:"
              /\ out' = <<>>
              /\ data' = data
              /\ seen' = seen)]_vars
    /\ [][pc # "fatal"]_vars
    /\ [](err \in {"unknown keyword type:", "reading standard input:"}
            => out = <<>>)
    /\ [](out # <<>> => (pc = "done" \/ (pc = "fatal" /\ err = "execute")))

\* An unknown header inside an open section that already recorded AB.
C4_Witness ==
    /\ pc = "fatal"
    /\ err = "unknown keyword type:"
    /\ input = <<ReservedKeyword, PipeAB, DoubleHeader>>
    /\ data = <<EntryAB("R")>>
    /\ out = <<>>

----------------------------------------------------------------------------
\* C5: the generated lookup function returns, for the key of every line of the
\* generated mapping, the Match of that line, and IDENT for a string that is
\* no key; its case labels are the keys of the mapping.
LookupProbes ==
    {ToLower(FromFirstUpper(l)) : l \in KeywordLines} \cup {<<"z">>, <<>>}

C5_LookupAgreesWithMapping ==
    pc = "done" =>
        /\ \A i \in 1..Len(Keywords(out)) :
              GetKeywordID(out, Keywords(out)[i].Lower) = Keywords(out)[i].Match
        /\ \A k \in LookupProbes :
              (\A i \in 1..Len(Keywords(out)) : Keywords(out)[i].Lower # k)
                 => GetKeywordID(out, k) = Ident
        /\ {Cases(out)[i].Lower : i \in 1..Len(Cases(out))}
              = {Keywords(out)[i].Lower : i \in 1..Len(Keywords(out))}

----------------------------------------------------------------------------
\* C6: two runs on the same keyword sections, the sections and the keyword
\* lines inside each section arranged in two orders, write the same output.
BothRan == outFirst # <<>> /\ outSecond # <<>>

C6_OrderIndependent == BothRan => outFirst = outSecond

\* The keys of an output with the categories left out.
KeyNames(o) ==
    [i \in 1..Len(Keywords(o)) |-> <<Keywords(o)[i].Lower, Keywords(o)[i].Match>>]

\* No Match is listed in sections of two different categories.
OneCodePerMatch(lines) ==
    \A i, j \in 1..Len(lines) :
        (/\ Yields(lines, i, FromFirstUpper(lines[i]))
         /\ Yields(lines, j, FromFirstUpper(lines[i])))
           => SectionCode(lines, i) = SectionCode(lines, j)

\* C6 as amended: the two outputs list the same Lower and Match values in the
\* same order, and the Category of a Match is that of the section listing it
\* first in the respective input; the two outputs are identical whenever no
\* Match is listed in sections of two different categories.
C6_OrderIndependentNames ==
    BothRan =>
        /\ KeyNames(outFirst) = KeyNames(outSecond)
        /\ Cases(outFirst) = Cases(outSecond)
        /\ \A i \in 1..Len(Keywords(outFirst)) :
              /\ Keywords(outFirst)[i].Category
                    = FirstCode(first, Keywords(outFirst)[i].Match)
              /\ Keywords(outSecond)[i].Category
                    = FirstCode(second, Keywords(outFirst)[i].Match)
        /\ OneCodePerMatch(first) => outFirst = outSecond

\* Two sections swapped, so that "B c" is read first in one input and "| AB"
\* in the other: the same two entries in the same order.
C6_Witness ==
    /\ BothRan
    /\ first = <<ReservedKeyword, LineBc, EmptyLine,
                 UnreservedKeyword, PipeAB, EmptyLine>>
    /\ second = <<UnreservedKeyword, PipeAB, EmptyLine,
                  ReservedKeyword, LineBc, EmptyLine>>
    /\ OneCodePerMatch(first)
    /\ Len(Keywords(outFirst)) = 2
    /\ Keywords(outFirst)[1].Match = <<"A", "B">>
    /\ outFirst = outSecond

----------------------------------------------------------------------------
\* C7: an empty line clears the flag; while the flag is clear a line that is
\* not a header changes neither the entry list, the seen set, the flag nor
\* the category; every entry comes from a line of an open section.
C7_SectionBoundaries ==
    /\ [][(Reads /\ ReadLine = <<>>) => (keyword' = FALSE)]_vars
    /\ [][(Reads /\ ~keyword /\ ~IsHeaderLine(ReadLine))
          => UNCHANGED <<data, seen, keyword, category>>]_vars
    /\ [](\A i \in 1..Len(data) :
            \E k \in 1..Len(input) : Yields(input, k, data[i].Match))

\* A keyword line after the blank line that closed the section: no entry.
C7_Witness ==
    /\ pc = "scan"
    /\ input = <<ReservedKeyword, EmptyLine, PipeAB>>
    /\ ~keyword
    /\ category = "R"
    /\ data = <<>>
    /\ seen = {}

----------------------------------------------------------------------------
\* C8: a header line whose matched text is a key of the table sets the flag
\* and sets the category to the table's code for that text, whatever the flag
\* was, and adds no entry and nothing to the seen set.
C8_HeaderHandling ==
    [][(/\ Reads
        /\ IsHeaderLine(ReadLine)
        /\ MatchedHeader(ReadLine) \in DOMAIN categories)
       => (/\ keyword' = TRUE
           /\ category' = categories[MatchedHeader(ReadLine)]
           /\ data' = data
           /\ seen' = seen
           /\ pc' = "scan")]_vars

\* "col_name_keyword: AB" inside an open reserved section: no entry from the
\* header, and the AB line after it is recorded under C.
C8_Witness ==
    /\ pc = "scan"
    /\ input = <<ReservedKeyword, ColNameHeaderAB, PipeAB>>
    /\ keyword
    /\ category = "C"
    /\ data = <<EntryAB("C")>>

----------------------------------------------------------------------------
\* C9: a non-empty line that is no header, read while the flag is set, whose
\* part from the first letter A-Z to the end of the line is new, appends the
\* entry with that part as Match, its lower-case form as Lower and the code of
\* the most recent header as Category; every entry's Category is one of C, U,
\* T, R.
C9_EntryShape ==
    /\ [][(/\ Reads
           /\ keyword
           /\ ReadLine # <<>>
           /\ ~IsHeaderLine(ReadLine)
           /\ FromFirstUpper(ReadLine) # <<>>
           /\ FromFirstUpper(ReadLine) \notin seen)
          => data' = Append(data,
                 [Lower |-> ToLower(FromFirstUpper(ReadLine)),
                  Match |-> FromFirstUpper(ReadLine),
                  Category |-> SectionCode(input', Len(input'))])]_vars
    /\ [](\A i \in 1..Len(data) :
            /\ data[i].Category \in {"C", "U", "T", "R"}
            /\ data[i].Lower = ToLower(data[i].Match))

\* "B c" in an unreserved section: the Match runs to the end of the line.
C9_Witness ==
    /\ pc = "scan"
    /\ input = <<UnreservedKeyword, LineBc>>
    /\ data = <<[Lower |-> <<"b", " ", "c">>, Match |-> <<"B", " ", "c">>,
                 Category |-> "U"]>>

----------------------------------------------------------------------------
\* C10: a non-empty line that is no header and holds no letter A-Z leaves the
\* flag, the category, the seen set and the entry list unchanged; the flag is
\* cleared only by a line of zero characters.
C10_OnlyEmptyLineEnds ==
    /\ [][(/\ Reads
           /\ ReadLine # <<>>
           /\ ~IsHeaderLine(ReadLine)
           /\ FromFirstUpper(ReadLine) = <<>>)
          => (UNCHANGED <<keyword, category, seen, data>> /\ pc' = "scan")]_vars
    /\ [][(Reads /\ keyword /\ ~keyword') => ReadLine = <<>>]_vars

\* A keyword line after a whitespace-only line is recorded under the same code.
C10_Witness ==
    /\ pc = "scan"
    /\ input = <<ReservedKeyword, SpaceLine, PipeAB>>
    /\ keyword
    /\ data = <<EntryAB("R")>>

====
